---- MODULE Spec2Model ----
(***************************************************************************)
(* BPETokenizer (src/src/tokenStrategy/BPE.tsx): train, tokenize,          *)
(* detokenize, validateRoundTrip, exportVocabulary and importVocabulary.   *)
(*                                                                         *)
(* A JavaScript string is a sequence of one-character strings.  A Map is   *)
(* a sequence of [k, v] records in insertion order where the code iterates *)
(* it (words, pairs, pairCounts) and a function where it only looks up     *)
(* (vocabulary, reverseVocabulary).                                        *)
(***************************************************************************)
EXTENDS Integers, Sequences, FiniteSets, TLC

\* ------------------------------------------------------------------ bounds
MaxLen == 2
MaxIds == 2

\* -------------------------------------------------------------- characters
Lower == {"a","b","c","d","e","f","g","h","i","j","k","l","m",
          "n","o","p","q","r","s","t","u","v","w","x","y","z"}
Upper == {"A","B"}
Digits == {"0","1","2","3","4","5","6","7","8","9"}

\* The characters the regular-expression classes \s and \w contain, among the
\* characters the model uses.
IsSpace(c) == c \in {" ", "\t"}
IsWordChar(c) == c \in Lower \cup Upper \cup Digits \cup {"_"}

\* UTF-16 code unit of a character (the order Array.prototype.sort uses).
CharCode(c) ==
  CASE c = "\t" -> 9 [] c = " " -> 32 [] c = "." -> 46 [] c = "/" -> 47
    [] c = "<" -> 60 [] c = ">" -> 62 [] c = "A" -> 65 [] c = "B" -> 66
    [] c = "_" -> 95
    [] c = "a" -> 97 [] c = "b" -> 98 [] c = "c" -> 99 [] c = "d" -> 100
    [] c = "e" -> 101 [] c = "h" -> 104 [] c = "l" -> 108 [] c = "o" -> 111
    [] c = "r" -> 114 [] c = "w" -> 119
    [] OTHER -> 120

\* String.prototype.toLowerCase
LowerChar(c) == CASE c = "A" -> "a" [] c = "B" -> "b" [] OTHER -> c
toLowerCase(s) == [i \in 1..Len(s) |-> LowerChar(s[i])]

\* ----------------------------------------------------------- string helpers
RECURSIVE Flatten(_)
Flatten(ss) == IF ss = <<>> THEN <<>> ELSE Head(ss) \o Flatten(Tail(ss))

\* Array.prototype.join(sep)
RECURSIVE join(_, _)
join(parts, sep) ==
  IF parts = <<>> THEN <<>>
  ELSE IF Len(parts) = 1 THEN parts[1]
  ELSE parts[1] \o sep \o join(Tail(parts), sep)

\* String.prototype.split('') : one string per code unit
splitChars(s) == [i \in 1..Len(s) |-> <<s[i]>>]

\* String.prototype.split(' ') : split on every single space, empty pieces kept
RECURSIVE splitSpaceFrom(_, _, _)
splitSpaceFrom(s, i, cur) ==
  IF i > Len(s) THEN <<cur>>
  ELSE IF s[i] = " " THEN <<cur>> \o splitSpaceFrom(s, i + 1, <<>>)
  ELSE splitSpaceFrom(s, i + 1, Append(cur, s[i]))
splitSpace(s) == splitSpaceFrom(s, 1, <<>>)

\* String.prototype.split(/\s+/) : split on every maximal run of whitespace;
\* a leading or trailing run leaves an empty first or last piece.
RECURSIVE splitWsFrom(_, _, _)
splitWsFrom(s, i, cur) ==
  IF i > Len(s) THEN <<cur>>
  ELSE IF IsSpace(s[i])
       THEN IF i > 1 /\ IsSpace(s[i - 1])
            THEN splitWsFrom(s, i + 1, cur)
            ELSE <<cur>> \o splitWsFrom(s, i + 1, <<>>)
       ELSE splitWsFrom(s, i + 1, Append(cur, s[i]))
splitWs(s) == splitWsFrom(s, 1, <<>>)

\* .filter(w => w.length > 0)
filterNonEmpty(ws) == SelectSeq(ws, LAMBDA w : Len(w) > 0)

\* String.prototype.replace(/\s+/g, ' ')
RECURSIVE collapseWsFrom(_, _)
collapseWsFrom(s, i) ==
  IF i > Len(s) THEN <<>>
  ELSE IF IsSpace(s[i])
       THEN IF i > 1 /\ IsSpace(s[i - 1])
            THEN collapseWsFrom(s, i + 1)
            ELSE <<" ">> \o collapseWsFrom(s, i + 1)
       ELSE <<s[i]>> \o collapseWsFrom(s, i + 1)
collapseWs(s) == collapseWsFrom(s, 1)

\* String.prototype.trim
RECURSIVE trimStart(_)
trimStart(s) == IF s # <<>> /\ IsSpace(Head(s)) THEN trimStart(Tail(s)) ELSE s
RECURSIVE trimEnd(_)
trimEnd(s) ==
  IF s # <<>> /\ IsSpace(s[Len(s)]) THEN trimEnd(SubSeq(s, 1, Len(s) - 1)) ELSE s
trim(s) == trimEnd(trimStart(s))

\* ------------------------------------------------------ insertion-ordered Map
MapIndex(m, k) ==
  IF \E i \in 1..Len(m) : m[i].k = k
  THEN CHOOSE i \in 1..Len(m) : m[i].k = k
  ELSE 0
MapHas(m, k) == MapIndex(m, k) # 0
\* (m.get(k) || 0)
MapGetOr0(m, k) == IF MapHas(m, k) THEN m[MapIndex(m, k)].v ELSE 0
\* m.set(k, v): an existing key keeps its place
MapSet(m, k, v) ==
  IF MapHas(m, k)
  THEN [m EXCEPT ![MapIndex(m, k)] = [k |-> k, v |-> v]]
  ELSE Append(m, [k |-> k, v |-> v])

\* ------------------------------------------------------- regular expressions
RegexSpecials == {".", "*", "+", "?", "^", "$", "{", "}", "(", ")", "|", "[", "]", "\\"}

\* escapeRegex: every special character is preceded by a backslash
escapeRegex(str) ==
  Flatten([i \in 1..Len(str) |->
             IF str[i] \in RegexSpecials THEN <<"\\", str[i]>> ELSE <<str[i]>>])

\* `\\b${escapeRegex(first)} ${escapeRegex(second)}\\b`
mergePatternSource(first, second) ==
  <<"\\", "b">> \o escapeRegex(first) \o <<" ">> \o escapeRegex(second) \o <<"\\", "b">>

\* new RegExp(source): the atoms of a source made of literals, escapes, '.'
\* and \b (no other construct survives escapeRegex).
RECURSIVE parseRegex(_, _)
parseRegex(src, i) ==
  IF i > Len(src) THEN <<>>
  ELSE IF src[i] = "\\" /\ i < Len(src)
       THEN IF src[i + 1] = "b"
            THEN <<[t |-> "wb", c |-> ""]>> \o parseRegex(src, i + 2)
            ELSE <<[t |-> "lit", c |-> src[i + 1]]>> \o parseRegex(src, i + 2)
       ELSE IF src[i] = "."
            THEN <<[t |-> "any", c |-> ""]>> \o parseRegex(src, i + 1)
            ELSE <<[t |-> "lit", c |-> src[i]]>> \o parseRegex(src, i + 1)
RegExp(src) == parseRegex(src, 1)

\* \b at position p (between s[p-1] and s[p]); outside the string is non-word
WordAt(s, p) == p >= 1 /\ p <= Len(s) /\ IsWordChar(s[p])
IsBoundary(s, p) == WordAt(s, p - 1) # WordAt(s, p)

\* The position after a match of atoms[k..] that starts at p, or -1
RECURSIVE matchAt(_, _, _, _)
matchAt(atoms, k, s, p) ==
  IF k > Len(atoms) THEN p
  ELSE IF atoms[k].t = "wb"
       THEN IF IsBoundary(s, p) THEN matchAt(atoms, k + 1, s, p) ELSE -1
       ELSE IF p <= Len(s) /\ (atoms[k].t = "any" \/ s[p] = atoms[k].c)
            THEN matchAt(atoms, k + 1, s, p + 1)
            ELSE -1

\* String.prototype.replace(pattern /g, replacement): leftmost matches, not
\* overlapping, scanned left to right.  The replacement holds no '$' here
\* (no symbol of the model contains one), so it is inserted as it stands.
RECURSIVE replaceFrom(_, _, _, _)
replaceFrom(s, atoms, repl, i) ==
  IF i > Len(s) THEN <<>>
  ELSE LET e == matchAt(atoms, 1, s, i) IN
       IF e > i THEN repl \o replaceFrom(s, atoms, repl, e)
       ELSE <<s[i]>> \o replaceFrom(s, atoms, repl, i + 1)
replaceAll(s, atoms, repl) == replaceFrom(s, atoms, repl, 1)

\* Variant of replaceMerge: the pattern has no \b on either side
replaceMergeNoBoundary(word, first, second) ==
  replaceAll(word, RegExp(escapeRegex(first) \o <<" ">> \o escapeRegex(second)),
             first \o second)

\* wordTokens.replace(pattern, `${first}${second}`)
replaceMerge(word, first, second) ==
  replaceAll(word, RegExp(mergePatternSource(first, second)), first \o second)

\* ---------------------------------------------------------------- tokenizer
\* '</w>', the end-of-word marker
EOW == <<"<", "/", "w", ">">>
PAD == <<"<", "p", "a", "d", ">">>
UNK == <<"<", "u", "n", "k", ">">>
BOS == <<"<", "s", ">">>
EOS == <<"<", "/", "s", ">">>

DefaultVocabSize == 1000
DefaultMinFreq == 2
DefaultMaxMerges == 500

\* constructor: the configuration when no option is given
DefaultConfig ==
  [vocabSize |-> DefaultVocabSize,
   specialTokens |-> <<PAD, UNK, BOS, EOS>>,
   unknownToken |-> UNK,
   padToken |-> PAD,
   minFreq |-> DefaultMinFreq,
   maxMerges |-> DefaultMaxMerges]

\* (x || d): 0 is falsy
OrDefault(x, d) == IF x = 0 THEN d ELSE x

\* Map.set on a Map the code only looks up
VocSet(f, k, v) == [x \in (DOMAIN f) \cup {k} |-> IF x = k THEN v ELSE f[x]]
EmptyMap == <<>>

\* The fields of a BPETokenizer that train clears: vocabulary,
\* reverseVocabulary, merges
EmptyState == [vocabulary |-> EmptyMap, reverseVocabulary |-> EmptyMap, merges |-> <<>>]

\* getPairs(word): adjacent pairs of a symbol array, keyed `${a} ${b}`
RECURSIVE getPairsFrom(_, _, _)
getPairsFrom(word, i, pairs) ==
  IF i > Len(word) - 1 THEN pairs
  ELSE LET pair == word[i] \o <<" ">> \o word[i + 1] IN
       getPairsFrom(word, i + 1, MapSet(pairs, pair, MapGetOr0(pairs, pair) + 1))
getPairs(word) == getPairsFrom(word, 1, <<>>)

\* countPairs(words): pair counts weighted by word frequency
RECURSIVE addPairs(_, _, _, _)
addPairs(pairCounts, pairs, j, freq) ==
  IF j > Len(pairs) THEN pairCounts
  ELSE addPairs(MapSet(pairCounts, pairs[j].k,
                       MapGetOr0(pairCounts, pairs[j].k) + freq * pairs[j].v),
                pairs, j + 1, freq)
RECURSIVE countPairsFrom(_, _, _)
countPairsFrom(words, i, pairCounts) ==
  IF i > Len(words) THEN pairCounts
  ELSE countPairsFrom(words, i + 1,
         addPairs(pairCounts, getPairs(splitSpace(words[i].k)), 1, words[i].v))
countPairs(words) == countPairsFrom(words, 1, <<>>)

\* Variant of applyMergeFrom: the frequency is added to what the old table
\* holds under the rewritten word
RECURSIVE applyMergeFromAdds(_, _, _, _, _)
applyMergeFromAdds(words, first, second, i, newWords) ==
  IF i > Len(words) THEN newWords
  ELSE applyMergeFromAdds(words, first, second, i + 1,
         MapSet(newWords, replaceMerge(words[i].k, first, second),
                MapGetOr0(words, replaceMerge(words[i].k, first, second)) + words[i].v))

\* applyMerge(words, merge)
RECURSIVE applyMergeFrom(_, _, _, _, _)
applyMergeFrom(words, first, second, i, newWords) ==
  IF i > Len(words) THEN newWords
  ELSE applyMergeFrom(words, first, second, i + 1,
         MapSet(newWords, replaceMerge(words[i].k, first, second), words[i].v))
applyMerge(words, merge) == applyMergeFrom(words, merge[1], merge[2], 1, <<>>)

\* train, lines 154-160: the special tokens, ids 0..
RECURSIVE seedSpecials(_, _, _)
seedSpecials(specials, i, st) ==
  IF i > Len(specials) THEN st
  ELSE seedSpecials(specials, i + 1,
         [vocabulary |-> VocSet(st.vocabulary, specials[i], st.tokenId),
          reverseVocabulary |-> VocSet(st.reverseVocabulary, st.tokenId, specials[i]),
          tokenId |-> st.tokenId + 1])

\* train, lines 164-169: the normalized word list
wordListOf(text) == filterNonEmpty(splitWs(trim(collapseWs(toLowerCase(text)))))

\* train, lines 172-175: the word frequency table
RECURSIVE countWords(_, _, _)
countWords(wordList, i, words) ==
  IF i > Len(wordList) THEN words
  ELSE LET processedWord == join(splitChars(wordList[i]), <<" ">>) \o <<" ">> \o EOW IN
       countWords(wordList, i + 1,
                  MapSet(words, processedWord, MapGetOr0(words, processedWord) + 1))

\* train, lines 178-185: the set of characters
allCharsOf(words) ==
  UNION {{c \in {splitSpace(words[i].k)[j] : j \in 1..Len(splitSpace(words[i].k))} :
            c # EOW /\ Len(c) > 0} : i \in 1..Len(words)}

\* Array.prototype.sort(): strings ordered by their code units
RECURSIVE StrLess(_, _)
StrLess(a, b) ==
  IF b = <<>> THEN FALSE
  ELSE IF a = <<>> THEN TRUE
  ELSE IF CharCode(a[1]) # CharCode(b[1]) THEN CharCode(a[1]) < CharCode(b[1])
  ELSE StrLess(Tail(a), Tail(b))
RECURSIVE sortStrings(_)
sortStrings(S) ==
  IF S = {} THEN <<>>
  ELSE LET m == CHOOSE x \in S : \A y \in S \ {x} : StrLess(x, y) IN
       <<m>> \o sortStrings(S \ {m})

\* train, lines 188-194: the characters in sorted order
RECURSIVE addChars(_, _, _)
addChars(chars, i, st) ==
  IF i > Len(chars) THEN st
  ELSE addChars(chars, i + 1,
         IF chars[i] \in DOMAIN st.vocabulary THEN st
         ELSE [vocabulary |-> VocSet(st.vocabulary, chars[i], st.tokenId),
               reverseVocabulary |-> VocSet(st.reverseVocabulary, st.tokenId, chars[i]),
               tokenId |-> st.tokenId + 1])

\* train, lines 197-201: the end-of-word token
addEndOfWord(st) ==
  IF EOW \in DOMAIN st.vocabulary THEN st
  ELSE [vocabulary |-> VocSet(st.vocabulary, EOW, st.tokenId),
        reverseVocabulary |-> VocSet(st.reverseVocabulary, st.tokenId, EOW),
        tokenId |-> st.tokenId + 1]

\* Variant of findBest: a pair that ties with the best so far replaces it
RECURSIVE findBestLastWins(_, _, _, _)
findBestLastWins(pairCounts, i, minFreq, best) ==
  IF i > Len(pairCounts) THEN best
  ELSE findBestLastWins(pairCounts, i + 1, minFreq,
         IF pairCounts[i].v >= best.maxCount /\ pairCounts[i].v >= minFreq
         THEN [maxCount |-> pairCounts[i].v, bestPair |-> splitSpace(pairCounts[i].k)]
         ELSE best)

\* train, lines 213-221: the most frequent pair; <<>> stands for null
RECURSIVE findBest(_, _, _, _)
findBest(pairCounts, i, minFreq, best) ==
  IF i > Len(pairCounts) THEN best
  ELSE findBest(pairCounts, i + 1, minFreq,
         IF pairCounts[i].v > best.maxCount /\ pairCounts[i].v >= minFreq
         THEN [maxCount |-> pairCounts[i].v, bestPair |-> splitSpace(pairCounts[i].k)]
         ELSE best)

\* train, line 207: the loop condition
loopContinues(cfg, vocab, mergeCount) ==
  /\ Cardinality(DOMAIN vocab) < cfg.vocabSize
  /\ mergeCount < OrDefault(cfg.maxMerges, DefaultMaxMerges)

\* train, line 223: the loop stops when no pair reaches the threshold
noBestPair(cfg, best) ==
  best.bestPair = <<>> \/ best.maxCount < OrDefault(cfg.minFreq, DefaultMinFreq)

\* train, lines 225-236: the merge is recorded and applied, and the merged
\* token enters the vocabulary unless it is there already
pushMerge(s, bestPair, mergedToken) ==
  [currentWords |-> applyMerge(s.currentWords, bestPair),
   mergeCount |-> s.mergeCount + 1,
   vocabulary |-> IF mergedToken \in DOMAIN s.vocabulary THEN s.vocabulary
                  ELSE VocSet(s.vocabulary, mergedToken, s.tokenId),
   reverseVocabulary |-> IF mergedToken \in DOMAIN s.vocabulary THEN s.reverseVocabulary
                         ELSE VocSet(s.reverseVocabulary, s.tokenId, mergedToken),
   merges |-> Append(s.merges, bestPair),
   tokenId |-> IF mergedToken \in DOMAIN s.vocabulary THEN s.tokenId ELSE s.tokenId + 1,
   done |-> FALSE]

\* train, lines 223-236: the loop body once the best pair is known
mergeBest(cfg, s, best) ==
  IF noBestPair(cfg, best) THEN [s EXCEPT !.done = TRUE]
  ELSE pushMerge(s, <<best.bestPair[1], best.bestPair[2]>>,
                 best.bestPair[1] \o best.bestPair[2])

\* train, lines 210-236: the loop body once the pairs are counted
mergeStep(cfg, s, pairCounts) ==
  IF Len(pairCounts) = 0 THEN [s EXCEPT !.done = TRUE]
  ELSE mergeBest(cfg, s, findBest(pairCounts, 1, OrDefault(cfg.minFreq, DefaultMinFreq),
                                  [maxCount |-> 0, bestPair |-> <<>>]))

\* train, lines 207-237: one evaluation of the loop condition and, when it
\* holds, one pass through the loop body ("done" once the loop has been left)
trainStep(cfg, s) ==
  IF ~loopContinues(cfg, s.vocabulary, s.mergeCount) THEN [s EXCEPT !.done = TRUE]
  ELSE mergeStep(cfg, s, countPairs(s.currentWords))

\* n consecutive steps of the loop (fewer when it is left earlier), split in
\* halves so that the evaluation does not nest n deep
RECURSIVE runSteps(_, _, _)
runSteps(cfg, s, n) ==
  IF s.done \/ n = 0 THEN s
  ELSE IF n = 1 THEN trainStep(cfg, s)
  ELSE runSteps(cfg, runSteps(cfg, s, n \div 2), n - (n \div 2))

\* the while loop: steps until the loop is left (r is the state n steps on)
RECURSIVE trainLoop(_, _, _)
RECURSIVE trainLoopAfter(_, _, _)
trainLoopAfter(cfg, r, n) == IF r.done THEN r ELSE trainLoop(cfg, r, 2 * n)
trainLoop(cfg, s, n) == trainLoopAfter(cfg, runSteps(cfg, s, n), n)

\* Variant of isInvalidInput: the text is not trimmed before the test
isInvalidInputNoTrim(text) == text = <<>>

\* train, line 150: (!text || text.trim().length === 0)
isInvalidInput(text) == text = <<>> \/ Len(trim(text)) = 0

\* train, lines 171-175: the word frequency table of a text
trainWords(text) == countWords(wordListOf(text), 1, <<>>)

\* Variant of trainReset: nothing is cleared
trainResetKeeps(st) == st

\* train, lines 145-147: vocabulary.clear(), reverseVocabulary.clear(),
\* merges = []
trainReset(st) == [vocabulary |-> EmptyMap, reverseVocabulary |-> EmptyMap, merges |-> <<>>]

\* train, lines 154-201: the vocabulary before the first merge, built in the
\* maps the reset left (cleared)
seedVocabularyIn(cfg, words, cleared) ==
  addEndOfWord(addChars(sortStrings(allCharsOf(words)), 1,
    seedSpecials(cfg.specialTokens, 1,
      [vocabulary |-> cleared.vocabulary,
       reverseVocabulary |-> cleared.reverseVocabulary,
       tokenId |-> 0])))
seedVocabulary(cfg, words) == seedVocabularyIn(cfg, words, trainReset(EmptyState))

\* train, lines 204-205: the locals of the merge loop at its entry
loopEntry(words, seeded) ==
  [currentWords |-> words,
   mergeCount |-> 0,
   vocabulary |-> seeded.vocabulary,
   reverseVocabulary |-> seeded.reverseVocabulary,
   merges |-> <<>>,
   tokenId |-> seeded.tokenId,
   done |-> FALSE]

\* the tokenizer's fields when train returns
trainReturn(final) ==
  [threw |-> FALSE,
   state |-> [vocabulary |-> final.vocabulary,
              reverseVocabulary |-> final.reverseVocabulary,
              merges |-> final.merges]]

\* train, lines 154-237, on the word frequency table
trainOn(cfg, words) ==
  trainReturn(trainLoop(cfg, loopEntry(words, seedVocabulary(cfg, words)), 1))

\* train(text): the tokenizer's fields after the call, and whether it threw
train(cfg, text) ==
  IF isInvalidInput(text)
  THEN [threw |-> TRUE, state |-> EmptyState]
  ELSE trainOn(cfg, trainWords(text))

\* ------------------------------------------------------------------- inputs
Alphabet == {"a", "b", "A", " "}
SeqsUpTo(S, n) == UNION {[1..k -> S] : k \in 0..n}

\* Longer texts: the scenarios of the documentation, repeated characters and
\* words, surrounding and doubled spaces, a tab, a punctuation mark
ExtraTexts ==
  { <<"h","e","l","l","o"," ","w","o","r","l","d">>,
    <<"a","a","a","b","d","a","a","a","b","a","c">>,
    <<"a","a","a">>,
    <<"a"," ","a">>,
    <<"a","a","b">>,
    <<"a"," ","A">>,
    <<" ","a"," ">>,
    <<"a","b"," ","a","b">>,
    <<"a","a"," ","a","a">>,
    <<"a","a","a","a">>,
    <<"b"," ","b"," ","b">>,
    <<"a"," "," ","b">>,
    <<"\t">>,
    <<"a","\t","b">>,
    <<"a",".">>,
    <<"a","."," ","a",".">>,
    <<"w"," ","w">> }

Texts == SeqsUpTo(Alphabet, MaxLen) \cup ExtraTexts

\* new BPETokenizer(config): the configurations tokenizers are built with
Configs ==
  { DefaultConfig,
    [DefaultConfig EXCEPT !.vocabSize = 3],
    [DefaultConfig EXCEPT !.maxMerges = 0],
    [DefaultConfig EXCEPT !.minFreq = 0, !.maxMerges = 4],
    [DefaultConfig EXCEPT !.vocabSize = 6, !.maxMerges = 2, !.minFreq = 1,
                          !.specialTokens = <<UNK, <<"a", "a">>>>],
    [DefaultConfig EXCEPT !.maxMerges = 3, !.minFreq = 3, !.specialTokens = <<>>],
    [DefaultConfig EXCEPT !.specialTokens = <<UNK, UNK>>] }

\* ids handed to detokenize: small ids and one far outside any vocabulary
MaxId == 7
IdPool == (0..MaxId) \cup {999999}
IdSeqs == SeqsUpTo(IdPool, MaxIds)

\* train(text) for every configuration and text, as a table (@@ has the table
\* computed once, when it is defined, and not at every use)
trained == [c \in Configs |-> ([t \in Texts |-> train(c, t)] @@ <<>>)] @@ <<>>

\* tokenize, line 263
tokenizeWords(text) == filterNonEmpty(splitWs(toLowerCase(text)))

\* Variant of applyMerges: the merges are applied from the last to the first
RECURSIVE applyMergesBackwards(_, _, _, _)
applyMergesBackwards(wordTokens, mergeList, lo, hi) ==
  IF Len(wordTokens) < 0 \/ lo > hi THEN wordTokens
  ELSE IF lo = hi THEN replaceMerge(wordTokens, mergeList[lo][1], mergeList[lo][2])
  ELSE applyMergesBackwards(
         applyMergesBackwards(wordTokens, mergeList, ((lo + hi) \div 2) + 1, hi),
         mergeList, lo, (lo + hi) \div 2)

\* tokenize, lines 270-273: every merge in order, merges[lo..hi]. The list is
\* split in halves so that the evaluation does not nest Len(merges) deep; the
\* test of Len(wordTokens), which never holds, has the string so far computed
\* before the next merges are applied to it.
RECURSIVE applyMerges(_, _, _, _)
applyMerges(wordTokens, mergeList, lo, hi) ==
  IF Len(wordTokens) < 0 \/ lo > hi THEN wordTokens
  ELSE IF lo = hi THEN replaceMerge(wordTokens, mergeList[lo][1], mergeList[lo][2])
  ELSE applyMerges(applyMerges(wordTokens, mergeList, lo, (lo + hi) \div 2),
                   mergeList, ((lo + hi) \div 2) + 1, hi)

\* tokenize, lines 267-273 and 276: the symbols of one word after all merges
segment(mergeList, word) ==
  filterNonEmpty(splitSpace(
    applyMerges(join(splitChars(word), <<" ">>) \o <<" ">> \o EOW, mergeList, 1, Len(mergeList))))

\* segment for every merge list training produces and every word of the
\* texts, as a table
MergeLists == {trained[c][t].state.merges : c \in Configs, t \in Texts}
Words == UNION {{tokenizeWords(t)[i] : i \in 1..Len(tokenizeWords(t))} : t \in Texts}
segmented == [m \in MergeLists |-> ([w \in Words |-> segment(m, w)] @@ <<>>)] @@ <<>>

segmentIn(table, mergeList, word) ==
  IF mergeList \in DOMAIN table /\ word \in DOMAIN table[mergeList]
  THEN table[mergeList][word]
  ELSE segment(mergeList, word)
wordPartsOf(mergeList, word) == segmentIn(segmented, mergeList, word)

\* Variant of partIds: a symbol outside the vocabulary gets the next unused id
partIdsUnknownAsNextId(vocab, cfg, part) ==
  IF part \in DOMAIN vocab THEN <<vocab[part]>>
  ELSE <<Cardinality(DOMAIN vocab)>>

\* tokenize, lines 278-287: the ids one symbol contributes
partIds(vocab, cfg, part) ==
  IF part \in DOMAIN vocab THEN <<vocab[part]>>
  ELSE IF cfg.unknownToken \in DOMAIN vocab
       THEN <<vocab[cfg.unknownToken]>>
       ELSE <<>>

\* tokenize, lines 276-288: the ids of one word
wordPartsIds(vocab, cfg, wordParts) ==
  Flatten([i \in 1..Len(wordParts) |-> partIds(vocab, cfg, wordParts[i])])
wordIds(vocab, mergeList, cfg, word) ==
  wordPartsIds(vocab, cfg, wordPartsOf(mergeList, word))

\* Variant of tokenize: the empty text is answered before the vocabulary is
\* looked at
tokenizeChecksTextFirst(st, cfg, text) ==
  IF text = <<>> THEN [threw |-> FALSE, tokens |-> <<>>]
  ELSE IF Cardinality(DOMAIN st.vocabulary) = 0
  THEN [threw |-> TRUE, tokens |-> <<>>]
  ELSE LET words == tokenizeWords(text) IN
       [threw |-> FALSE,
        tokens |-> Flatten([i \in 1..Len(words) |->
                     wordIds(st.vocabulary, st.merges, cfg, words[i])])]

\* Variant of tokenize: the empty text is rejected, as train rejects it
tokenizeRejectsEmptyText(st, cfg, text) ==
  IF Cardinality(DOMAIN st.vocabulary) = 0 \/ text = <<>>
  THEN [threw |-> TRUE, tokens |-> <<>>]
  ELSE LET words == tokenizeWords(text) IN
       [threw |-> FALSE,
        tokens |-> Flatten([i \in 1..Len(words) |->
                     wordIds(st.vocabulary, st.merges, cfg, words[i])])]

\* tokenize(text) on a tokenizer with fields st
tokenize(st, cfg, text) ==
  IF Cardinality(DOMAIN st.vocabulary) = 0
  THEN [threw |-> TRUE, tokens |-> <<>>]
  ELSE IF text = <<>> THEN [threw |-> FALSE, tokens |-> <<>>]
  ELSE LET words == tokenizeWords(text) IN
       [threw |-> FALSE,
        tokens |-> Flatten([i \in 1..Len(words) |->
                     wordIds(st.vocabulary, st.merges, cfg, words[i])])]

\* config.specialTokens.includes(token)
includes(arr, x) == \E i \in 1..Len(arr) : arr[i] = x

\* Variant of detokenizeStep: an id without a token drops the word collected
\* so far
detokenizeStepUnknownResets(st, cfg, acc, tokenId) ==
  LET known == tokenId \in DOMAIN st.reverseVocabulary
      token == IF known THEN st.reverseVocabulary[tokenId] ELSE <<>>
  IN IF ~known \/ token = <<>> THEN [acc EXCEPT !.currentWord = <<>>]
     ELSE IF token = EOW
          THEN IF acc.currentWord # <<>>
               THEN [words |-> Append(acc.words, acc.currentWord), currentWord |-> <<>>]
               ELSE acc
          ELSE IF ~includes(cfg.specialTokens, token)
               THEN [acc EXCEPT !.currentWord = acc.currentWord \o token]
               ELSE acc

\* detokenize, lines 306-321: one id; acc is [words, currentWord]
detokenizeStep(st, cfg, acc, tokenId) ==
  LET known == tokenId \in DOMAIN st.reverseVocabulary
      token == IF known THEN st.reverseVocabulary[tokenId] ELSE <<>>
  IN IF ~known \/ token = <<>> THEN acc
     ELSE IF token = EOW
          THEN IF acc.currentWord # <<>>
               THEN [words |-> Append(acc.words, acc.currentWord), currentWord |-> <<>>]
               ELSE acc
          ELSE IF ~includes(cfg.specialTokens, token)
               THEN [acc EXCEPT !.currentWord = acc.currentWord \o token]
               ELSE acc

RECURSIVE detokenizeFrom(_, _, _, _, _)
detokenizeFrom(st, cfg, tokens, i, acc) ==
  IF i > Len(tokens) THEN acc
  ELSE detokenizeFrom(st, cfg, tokens, i + 1, detokenizeStep(st, cfg, acc, tokens[i]))

\* detokenize, lines 323-326: the remaining word is added
detokenizeWords(acc) ==
  IF acc.currentWord # <<>> THEN Append(acc.words, acc.currentWord) ELSE acc.words

\* Variant of detokenize: the words are joined without a separator
detokenizeJoinsNothing(st, cfg, tokens) ==
  IF Len(tokens) = 0 THEN <<>>
  ELSE join(detokenizeWords(detokenizeFrom(st, cfg, tokens, 1,
              [words |-> <<>>, currentWord |-> <<>>])), <<>>)

\* detokenize(tokens)
detokenize(st, cfg, tokens) ==
  IF Len(tokens) = 0 THEN <<>>
  ELSE join(detokenizeWords(detokenizeFrom(st, cfg, tokens, 1,
              [words |-> <<>>, currentWord |-> <<>>])), <<" ">>)

\* Variant of validationResult: the text is compared after lowercasing
validationResultIgnoresCase(st, text, tokens, reconstructed) ==
  [isValid |-> toLowerCase(text) = reconstructed, originalText |-> text,
   reconstructedText |-> reconstructed,
   tokensMatch |-> \A i \in 1..Len(tokens) : tokens[i] \in DOMAIN st.reverseVocabulary,
   errors |-> IF toLowerCase(text) = reconstructed THEN <<>>
              ELSE <<"Round-trip validation failed">>,
   threw |-> FALSE,
   tokens |-> tokens]

\* Variant of validationResult: the text is compared after its whitespace is
\* normalised to single spaces
validationResultNormalizes(st, text, tokens, reconstructed) ==
  [isValid |-> join(filterNonEmpty(splitWs(text)), <<" ">>) = reconstructed,
   originalText |-> text,
   reconstructedText |-> reconstructed,
   tokensMatch |-> \A i \in 1..Len(tokens) : tokens[i] \in DOMAIN st.reverseVocabulary,
   errors |-> IF join(filterNonEmpty(splitWs(text)), <<" ">>) = reconstructed THEN <<>>
              ELSE <<"Round-trip validation failed">>,
   threw |-> FALSE,
   tokens |-> tokens]

\* validateRoundTrip, lines 64-73: the result when nothing threw
validationResult(st, text, tokens, reconstructed) ==
  [isValid |-> text = reconstructed, originalText |-> text,
   reconstructedText |-> reconstructed,
   tokensMatch |-> \A i \in 1..Len(tokens) : tokens[i] \in DOMAIN st.reverseVocabulary,
   errors |-> IF text = reconstructed THEN <<>> ELSE <<"Round-trip validation failed">>,
   threw |-> FALSE,
   tokens |-> tokens]

\* validateRoundTrip, lines 74-81: the result of the catch block
validationError(text) ==
  [isValid |-> FALSE, originalText |-> text, reconstructedText |-> <<>>,
   tokensMatch |-> FALSE, errors |-> <<"Validation error">>, threw |-> FALSE,
   tokens |-> <<>>]

\* validateRoundTrip, lines 58-81, t being what tokenize(text) did
validateTokenized(st, cfg, text, t) ==
  IF t.threw THEN validationError(text)
  ELSE validationResult(st, text, t.tokens, detokenize(st, cfg, t.tokens))

\* Variant of validateRoundTrip: no try/catch, an error of tokenize escapes
validateNoCatch(st, cfg, text, t) ==
  IF t.threw THEN [validationError(text) EXCEPT !.threw = TRUE]
  ELSE validationResult(st, text, t.tokens, detokenize(st, cfg, t.tokens))
validateRoundTripNoCatch(st, cfg, text) ==
  validateNoCatch(st, cfg, text, tokenize(st, cfg, text))

\* validateRoundTrip(text)
validateRoundTrip(st, cfg, text) ==
  validateTokenized(st, cfg, text, tokenize(st, cfg, text))

\* ------------------------------------------------------------------ benchmark
\* A Number that is a ratio of two integers, in lowest terms; 0/0 is NaN
RECURSIVE Gcd(_, _)
Gcd(a, b) == IF b = 0 THEN a ELSE Gcd(b, a % b)
Ratio(a, b) ==
  IF b = 0 THEN [num |-> 0, den |-> 0]
  ELSE [num |-> a \div Gcd(a, b), den |-> b \div Gcd(a, b)]

\* this.train(text) inside benchmark: what train does on the text
trainIn(table, cfg, text) ==
  IF cfg \in DOMAIN table /\ text \in DOMAIN table[cfg] THEN table[cfg][text]
  ELSE train(cfg, text)

\* benchmark, lines 421-434: the text is tokenized and validated on the
\* tokenizer train left (st); an error of tokenize goes to the catch block
benchmarkTrained(acc, text, st, t, validation) ==
  IF t.threw
  THEN [acc EXCEPT !.state = st, !.trainedOn = text,
                   !.errors = Append(acc.errors, "Error processing text")]
  ELSE IF validation.isValid
  THEN [acc EXCEPT !.state = st, !.trainedOn = text,
                   !.successfulRoundTrips = acc.successfulRoundTrips + 1]
  ELSE [acc EXCEPT !.state = st, !.trainedOn = text,
                   !.errors = Append(acc.errors, "Round-trip failed for text")]

\* Variant of benchmarkText: a text train rejects leaves no entry in errors
benchmarkTextDropsThrown(cfg, acc, text, r) ==
  IF r.threw
  THEN [acc EXCEPT !.state = r.state, !.trainedOn = <<"none">>]
  ELSE benchmarkTrained(acc, text, r.state, tokenize(r.state, cfg, text),
                        validateRoundTrip(r.state, cfg, text))

\* benchmark, lines 413-438: one text of the batch, r being what train did
benchmarkText(cfg, acc, text, r) ==
  IF r.threw
  THEN [acc EXCEPT !.state = r.state, !.trainedOn = <<"none">>,
                   !.errors = Append(acc.errors, "Error processing text")]
  ELSE benchmarkTrained(acc, text, r.state, tokenize(r.state, cfg, text),
                        validateRoundTrip(r.state, cfg, text))

\* benchmark, lines 412-439: the loop over the batch
RECURSIVE benchmarkFrom(_, _, _, _)
benchmarkFrom(cfg, texts, i, acc) ==
  IF i > Len(texts) THEN acc
  ELSE benchmarkFrom(cfg, texts, i + 1,
         benchmarkText(cfg, acc, texts[i], trainIn(trained, cfg, texts[i])))

\* benchmark, lines 441-446: the results returned (the timings and the
\* compression ratio are left out)
benchmarkResults(texts, acc) ==
  [state |-> acc.state,
   trainedOn |-> acc.trainedOn,
   results |-> [totalTexts |-> Len(texts),
                roundTripAccuracy |-> Ratio(100 * acc.successfulRoundTrips, Len(texts)),
                errors |-> acc.errors]]

\* Variant of benchmark: the batch is run on a copy and the tokenizer keeps
\* the fields it had
benchmarkOnCopy(st, cfg, lastText, texts) ==
  [state |-> st,
   trainedOn |-> lastText,
   results |-> benchmarkResults(texts,
                 benchmarkFrom(cfg, texts, 1,
                   [state |-> st, trainedOn |-> lastText, successfulRoundTrips |-> 0,
                    errors |-> <<>>])).results]

\* benchmark(texts) on a tokenizer with fields st, last trained on lastText
benchmark(st, cfg, lastText, texts) ==
  benchmarkResults(texts,
    benchmarkFrom(cfg, texts, 1,
      [state |-> st, trainedOn |-> lastText, successfulRoundTrips |-> 0, errors |-> <<>>]))

\* the batches handed to benchmark
MaxBatch == 2
BenchTexts ==
  { <<"a">>, <<"b"," ","b"," ","b">>, <<>>, <<"A">>, <<"a","b"," ","a","b">> }
Batches == SeqsUpTo(BenchTexts, MaxBatch)

\* ------------------------------------------------------------ export / import
DigitChar(d) ==
  CASE d = 0 -> "0" [] d = 1 -> "1" [] d = 2 -> "2" [] d = 3 -> "3" [] d = 4 -> "4"
    [] d = 5 -> "5" [] d = 6 -> "6" [] d = 7 -> "7" [] d = 8 -> "8" [] d = 9 -> "9"
DigitValue(c) == CHOOSE d \in 0..9 : DigitChar(d) = c

\* the property key of a non-negative integer (ToString)
RECURSIVE NumberToString(_)
NumberToString(n) ==
  IF n < 10 THEN <<DigitChar(n)>>
  ELSE NumberToString(n \div 10) \o <<DigitChar(n % 10)>>

\* Variant of StringToNumber: only the last digit of the key is read
StringToNumberLastDigit(s) == IF s = <<>> THEN 0 ELSE DigitValue(s[Len(s)])

\* Number(k) of a decimal string
RECURSIVE StringToNumber(_)
StringToNumber(s) ==
  IF Len(s) = 1 THEN DigitValue(s[1])
  ELSE 10 * StringToNumber(SubSeq(s, 1, Len(s) - 1)) + DigitValue(s[Len(s)])

\* Object.fromEntries(map) of a Map with string keys: the same keys
objectFromStringMap(m) == m
\* Object.fromEntries(map) of a Map with number keys: the keys become strings
objectFromNumberMap(m) ==
  [k \in {NumberToString(i) : i \in DOMAIN m} |->
     m[CHOOSE i \in DOMAIN m : NumberToString(i) = k]]

\* exportVocabulary()
exportVocabulary(st, cfg) ==
  [vocabulary |-> objectFromStringMap(st.vocabulary),
   reverseVocabulary |-> objectFromNumberMap(st.reverseVocabulary),
   merges |-> st.merges,
   config |-> cfg]

\* { ...a, ...b }
spread(a, b) == [f \in (DOMAIN a) \cup (DOMAIN b) |-> IF f \in DOMAIN b THEN b[f] ELSE a[f]]

\* importVocabulary, line 469: the keys of the object read back as numbers
importReverse(obj) ==
  [i \in {StringToNumber(k) : k \in DOMAIN obj} |->
     obj[CHOOSE k \in DOMAIN obj : StringToNumber(k) = i]]

\* importVocabulary(data) on a tokenizer with that configuration: its fields
\* and configuration after the call
importVocabulary(cfg, data) ==
  [vocabulary |-> data.vocabulary,
   reverseVocabulary |-> importReverse(data.reverseVocabulary),
   merges |-> data.merges,
   config |-> spread(cfg, data.config)]

\* ------------------------------------------------------------- state machine
VARIABLES
  config,             \* this.config
  vocabulary,         \* this.vocabulary
  reverseVocabulary,  \* this.reverseVocabulary
  merges,             \* this.merges
  trainedOn,          \* the text of the last train call that returned, <<"none">> if none
  call,               \* the call that returned last, "idle" once the caller has taken its result
  ret,                \* what that call returned
  loop                \* the locals of train while its merge loop runs

vars == <<config, vocabulary, reverseVocabulary, merges, trainedOn, call, ret, loop>>

NoText == <<"none">>
Idle == [op |-> "idle", text |-> <<>>, ids |-> <<>>, threw |-> FALSE, chained |-> FALSE,
         configB |-> <<>>, texts |-> <<>>, again |-> FALSE]
\* outside the merge loop of train
NoLoop == [currentWords |-> <<>>, mergeCount |-> 0, tokenId |-> 0, done |-> TRUE]
self == [vocabulary |-> vocabulary, reverseVocabulary |-> reverseVocabulary, merges |-> merges]

Init ==
  /\ config \in Configs
  /\ vocabulary = EmptyMap
  /\ reverseVocabulary = EmptyMap
  /\ merges = <<>>
  /\ trainedOn = NoText
  /\ call = Idle
  /\ ret = <<>>
  /\ loop = NoLoop

\* tokenizer.train(text), r being what train does on text
TrainEnds(text, r) ==
  /\ vocabulary' = r.state.vocabulary
  /\ reverseVocabulary' = r.state.reverseVocabulary
  /\ merges' = r.state.merges
  /\ trainedOn' = IF r.threw THEN NoText ELSE text
  /\ call' = [Idle EXCEPT !.op = "train", !.text = text, !.threw = r.threw]
  /\ ret' = <<>>
  /\ UNCHANGED <<config, loop>>
Train(text) ==
  /\ call.op = "idle"
  /\ TrainEnds(text, trained[config][text])

\* tokenizer.tokenize(text), r being what tokenize does on text
TokenizeEnds(text, r) ==
  /\ call' = [Idle EXCEPT !.op = "tokenize", !.text = text, !.threw = r.threw]
  /\ ret' = r.tokens
  /\ UNCHANGED <<config, vocabulary, reverseVocabulary, merges, trainedOn, loop>>
Tokenize(text) ==
  /\ call.op = "idle"
  /\ TokenizeEnds(text, tokenize(self, config, text))

\* tokenizer.detokenize(ids)
Detokenize(ids) ==
  /\ call.op = "idle"
  /\ call' = [Idle EXCEPT !.op = "detokenize", !.ids = ids]
  /\ ret' = detokenize(self, config, ids)
  /\ UNCHANGED <<config, vocabulary, reverseVocabulary, merges, trainedOn, loop>>

\* tokenizer.detokenize(tokenizer.tokenize(text)): the ids tokenize just returned
DetokenizeResult ==
  /\ call.op = "tokenize"
  /\ ~call.threw
  /\ call' = [call EXCEPT !.op = "detokenize", !.ids = ret, !.chained = TRUE]
  /\ ret' = detokenize(self, config, ret)
  /\ UNCHANGED <<config, vocabulary, reverseVocabulary, merges, trainedOn, loop>>

\* tokenizer.validateRoundTrip(text), r being what validateRoundTrip does on text
ValidateRoundTripEnds(text, r) ==
  /\ call' = [Idle EXCEPT !.op = "validateRoundTrip", !.text = text, !.threw = r.threw]
  /\ ret' = r
  /\ UNCHANGED <<config, vocabulary, reverseVocabulary, merges, trainedOn, loop>>
ValidateRoundTrip(text) ==
  /\ call.op = "idle"
  /\ ValidateRoundTripEnds(text, validateRoundTrip(self, config, text))

\* b = new BPETokenizer(configB);
\* b.importVocabulary(tokenizer.exportVocabulary()): ret is b afterwards
ExportImport(configB) ==
  /\ call.op = "idle"
  /\ call' = [Idle EXCEPT !.op = "import", !.configB = configB]
  /\ ret' = importVocabulary(configB, exportVocabulary(self, config))
  /\ UNCHANGED <<config, vocabulary, reverseVocabulary, merges, trainedOn, loop>>

\* tokenizer.benchmark(texts), r being what benchmark does on the batch
BenchmarkEnds(texts, r) ==
  /\ vocabulary' = r.state.vocabulary
  /\ reverseVocabulary' = r.state.reverseVocabulary
  /\ merges' = r.state.merges
  /\ trainedOn' = r.trainedOn
  /\ call' = [Idle EXCEPT !.op = "benchmark", !.texts = texts]
  /\ ret' = r.results
  /\ UNCHANGED <<config, loop>>
Benchmark(texts) ==
  /\ call.op = "idle"
  /\ BenchmarkEnds(texts, benchmark(self, config, trainedOn, texts))

\* the caller takes the result; the next call can be made
Return ==
  /\ call.op \notin {"idle", "training"}
  /\ call' = Idle
  /\ ret' = <<>>
  /\ UNCHANGED <<config, vocabulary, reverseVocabulary, merges, trainedOn, loop>>

Next ==
  \/ \E text \in Texts : Train(text)
  \/ \E text \in Texts : Tokenize(text)
  \/ \E ids \in IdSeqs : Detokenize(ids)
  \/ DetokenizeResult
  \/ \E text \in Texts : ValidateRoundTrip(text)
  \/ \E configB \in Configs : ExportImport(configB)
  \/ \E texts \in Batches : Benchmark(texts)
  \/ Return

Spec == Init /\ [][Next]_vars

\* ------------------------------------------------- train, iteration by iteration
\* The merge loop works on the tokenizer's own maps and merge list and on its
\* locals: together they are the state trainStep takes and returns
loopState ==
  [currentWords |-> loop.currentWords,
   mergeCount |-> loop.mergeCount,
   vocabulary |-> vocabulary,
   reverseVocabulary |-> reverseVocabulary,
   merges |-> merges,
   tokenId |-> loop.tokenId,
   done |-> loop.done]

\* train, lines 154-205: the vocabulary is seeded and the loop is reached
TrainLoopReached(text, cleared, words, seeded) ==
  /\ vocabulary' = seeded.vocabulary
  /\ reverseVocabulary' = seeded.reverseVocabulary
  /\ merges' = cleared.merges
  /\ loop' = [currentWords |-> words, mergeCount |-> 0, tokenId |-> seeded.tokenId,
              done |-> FALSE]
  /\ call' = [Idle EXCEPT !.op = "training", !.text = text,
                          !.again = (trainedOn # NoText /\ trainedOn # text)]

\* train, lines 150-152: the text is rejected on the cleared tokenizer
TrainRejects(text, cleared) ==
  /\ vocabulary' = cleared.vocabulary
  /\ reverseVocabulary' = cleared.reverseVocabulary
  /\ merges' = cleared.merges
  /\ loop' = NoLoop
  /\ call' = [Idle EXCEPT !.op = "train", !.text = text, !.threw = TRUE,
                          !.again = (trainedOn # NoText)]

TrainSeeds(text, cleared, words) ==
  TrainLoopReached(text, cleared, words, seedVocabularyIn(config, words, cleared))

\* train, lines 141-205: from the call to the entry of the merge loop
TrainBeginsOn(text, cleared) ==
  /\ IF isInvalidInput(text) THEN TrainRejects(text, cleared)
     ELSE TrainSeeds(text, cleared, trainWords(text))
  /\ trainedOn' = NoText
  /\ ret' = <<>>
  /\ UNCHANGED config
\* Variant of TrainBegins: the text is validated before anything is cleared
TrainBeginsValidatesFirst(text) ==
  /\ call.op = "idle"
  /\ TrainBeginsOn(text, IF isInvalidInput(text) THEN self ELSE trainReset(self))

TrainBegins(text) ==
  /\ call.op = "idle"
  /\ TrainBeginsOn(text, trainReset(self))

\* train, lines 207-237: one iteration of the merge loop (or its exit test)
TrainIteratesTo(s) ==
  /\ vocabulary' = s.vocabulary
  /\ reverseVocabulary' = s.reverseVocabulary
  /\ merges' = s.merges
  /\ loop' = [currentWords |-> s.currentWords, mergeCount |-> s.mergeCount,
              tokenId |-> s.tokenId, done |-> s.done]
  /\ UNCHANGED <<config, trainedOn, call, ret>>
TrainIterates ==
  /\ call.op = "training"
  /\ ~loop.done
  /\ TrainIteratesTo(trainStep(config, loopState))

\* train, lines 239-249: the loop is left and train returns
TrainReturns ==
  /\ call.op = "training"
  /\ loop.done
  /\ call' = [call EXCEPT !.op = "train"]
  /\ trainedOn' = call.text
  /\ loop' = NoLoop
  /\ UNCHANGED <<config, vocabulary, reverseVocabulary, merges, ret>>

TrainNext ==
  \/ \E text \in Texts : TrainBegins(text)
  \/ TrainIterates
  \/ TrainReturns
  \/ Return

TrainSpec == Init /\ [][TrainNext]_vars

\* ------------------------------------------------------------------ claims
\* A text of lowercase alphabetic words separated by single spaces, without
\* leading or trailing whitespace
IsPlain(text) ==
  /\ Len(text) > 0
  /\ \A i \in 1..Len(text) : text[i] \in Lower \cup {" "}
  /\ text[1] # " " /\ text[Len(text)] # " "
  /\ \A i \in 1..(Len(text) - 1) : ~(text[i] = " " /\ text[i + 1] = " ")

TrainReturned == call.op = "train" /\ ~call.threw

\* C1: with the default configuration, after train(T) on a plain text T,
\* detokenize(tokenize(T)) is T.
C1_RoundTripPlain ==
  (/\ call.op = "detokenize" /\ call.chained
   /\ config = DefaultConfig
   /\ call.text = trainedOn
   /\ IsPlain(call.text))
  => ret = call.text

C1_Witness ==
  /\ call.op = "detokenize" /\ call.chained
  /\ config = DefaultConfig
  /\ call.text = trainedOn
  /\ IsPlain(call.text)
  /\ \E i \in 1..Len(call.text) : call.text[i] = " "
  /\ \E i \in 1..Len(call.ids) :
       Len(reverseVocabulary[call.ids[i]]) > 1 /\ reverseVocabulary[call.ids[i]] # EOW
  /\ ret = call.text

\* C2: every id tokenize returns, for the training text and for any other
\* text, is a key of the reverseVocabulary object exportVocabulary returns.
C2_IdsExported ==
  (call.op = "tokenize" /\ ~call.threw)
  => \A i \in 1..Len(ret) :
       NumberToString(ret[i]) \in DOMAIN exportVocabulary(self, config).reverseVocabulary

C2_Witness ==
  /\ call.op = "tokenize" /\ ~call.threw
  /\ trainedOn # NoText /\ call.text # trainedOn
  /\ config.unknownToken \in DOMAIN vocabulary
  /\ \E i \in 1..Len(ret) : ret[i] = vocabulary[config.unknownToken]
  /\ \E i \in 1..Len(ret) : ret[i] # vocabulary[config.unknownToken]

\* C3 (as claimed): after a train that returned, the vocabulary has at most
\* vocabSize entries.
C3_VocabularyWithinVocabSize ==
  TrainReturned => Cardinality(DOMAIN vocabulary) <= config.vocabSize

\* C4 (as claimed): after a train that returned, the merge list has at most
\* maxMerges entries.
C4_MergesWithinMaxMerges ==
  TrainReturned => Len(merges) <= config.maxMerges

\* C5: tokenize throws whenever the vocabulary is empty, for every text.
C5_NotTrained ==
  (call.op = "tokenize" /\ vocabulary = EmptyMap) => call.threw

C5_Witness ==
  /\ call.op = "tokenize" /\ vocabulary = EmptyMap
  /\ call.text = <<>>
  /\ call.threw

\* C6: on a non-empty vocabulary, tokenize("") returns the empty id sequence
\* and does not throw.
C6_EmptyText ==
  (call.op = "tokenize" /\ vocabulary # EmptyMap /\ call.text = <<>>)
  => (~call.threw /\ ret = <<>>)

C6_Witness ==
  /\ call.op = "tokenize" /\ vocabulary # EmptyMap /\ call.text = <<>>
  /\ ~call.threw /\ ret = <<>>

\* C7: train throws exactly for the texts without a non-whitespace character.
C7_InvalidInput ==
  call.op = "train"
  => (call.threw <=> \A i \in 1..Len(call.text) : IsSpace(call.text[i]))

C7_Witness ==
  /\ call.op = "train" /\ call.threw
  /\ Len(call.text) > 0
  /\ \E i \in 1..Len(call.text) : call.text[i] = "\t"

\* C8: detokenize does not throw, and returns what it returns for the ids
\* with every id outside reverseVocabulary removed; detokenize([999999]) is "".
C8_UnknownIdsSkipped ==
  call.op = "detokenize"
  => /\ ~call.threw
     /\ ret = detokenize(self, config,
                SelectSeq(call.ids, LAMBDA id : id \in DOMAIN reverseVocabulary))
     /\ (call.ids = <<999999>> => ret = <<>>)

C8_Witness ==
  /\ call.op = "detokenize"
  /\ vocabulary # EmptyMap
  /\ Len(call.ids) = 2
  /\ call.ids[1] \in DOMAIN reverseVocabulary
  /\ call.ids[2] \notin DOMAIN reverseVocabulary
  /\ ret # <<>>

\* C9: after b.importVocabulary(a.exportVocabulary()), b's vocabulary,
\* reverseVocabulary, merges and configuration are a's.
C9_ExportImport ==
  call.op = "import"
  => /\ ret.vocabulary = vocabulary
     /\ ret.reverseVocabulary = reverseVocabulary
     /\ ret.merges = merges
     /\ ret.config = config

C9_Witness ==
  /\ call.op = "import"
  /\ call.configB # config
  /\ Len(merges) > 0
  /\ ret.reverseVocabulary = reverseVocabulary
  /\ ret.config = config

\* C10: validateRoundTrip does not throw; when tokenize throws inside it, the
\* result has isValid = false and a non-empty errors list.
C10_ValidatorNeverThrows ==
  call.op = "validateRoundTrip"
  => /\ ~call.threw
     /\ (tokenize(self, config, call.text).threw
           => (~ret.isValid /\ Len(ret.errors) > 0))

C10_Witness ==
  /\ call.op = "validateRoundTrip"
  /\ vocabulary = EmptyMap
  /\ ~call.threw
  /\ ~ret.isValid /\ Len(ret.errors) > 0

\* C11: on a trained tokenizer validateRoundTrip(text) has isValid exactly when
\* detokenize(tokenize(text)) is text, returns that decoded string as the
\* reconstructed text, and has no errors exactly when isValid.
ValidationAgrees(result, text, decoded) ==
  /\ result.isValid <=> (decoded = text)
  /\ result.reconstructedText = decoded
  /\ (result.errors = <<>>) <=> result.isValid
C11_ValidationIsRoundTrip ==
  (call.op = "validateRoundTrip" /\ vocabulary # EmptyMap)
  => ValidationAgrees(ret, call.text,
       detokenize(self, config, tokenize(self, config, call.text).tokens))

C11_Witness ==
  /\ call.op = "validateRoundTrip" /\ vocabulary # EmptyMap
  /\ ~ret.isValid
  /\ ret.reconstructedText = toLowerCase(call.text)
  /\ ret.reconstructedText # <<>>
  /\ ret.errors # <<>>

\* C12: benchmark(texts) goes through the whole batch: errors has one entry
\* for each text that threw or failed the round trip and none for the others,
\* roundTripAccuracy is 100 times the passed texts over the texts, and
\* benchmark(["a", "b b b"]) has no errors and an accuracy of 100.
PassesAlone(cfg, text) ==
  /\ ~trained[cfg][text].threw
  /\ detokenize(trained[cfg][text].state, cfg,
                tokenize(trained[cfg][text].state, cfg, text).tokens) = text
PassedIn(cfg, texts) == Cardinality({i \in 1..Len(texts) : PassesAlone(cfg, texts[i])})
C12_BenchmarkWholeBatch ==
  (call.op = "benchmark" /\ Len(call.texts) > 0)
  => /\ ret.totalTexts = Len(call.texts)
     /\ Len(ret.errors) = Len(call.texts) - PassedIn(config, call.texts)
     /\ ret.roundTripAccuracy = Ratio(100 * PassedIn(config, call.texts), Len(call.texts))
     /\ (call.texts = << <<"a">>, <<"b"," ","b"," ","b">> >>
           => (ret.errors = <<>> /\ ret.roundTripAccuracy = [num |-> 100, den |-> 1]))

C12_Witness ==
  /\ call.op = "benchmark"
  /\ call.texts = << <<>>, <<"a">> >>
  /\ Len(ret.errors) = 1
  /\ ret.roundTripAccuracy = [num |-> 50, den |-> 1]

\* The adjacent symbol pairs of a word frequency table, by position: word i
\* in first-appearance order, symbol j from the left
SymbolsOf(words, i) == splitSpace(words[i].k)
PairPositions(words) ==
  UNION {{<<i, j>> : j \in 1..(Len(SymbolsOf(words, i)) - 1)} : i \in 1..Len(words)}
PairAt(words, p) == <<SymbolsOf(words, p[1])[p[2]], SymbolsOf(words, p[1])[p[2] + 1]>>
OccurrencesIn(words, i, pair) ==
  Cardinality({j \in 1..(Len(SymbolsOf(words, i)) - 1) : PairAt(words, <<i, j>>) = pair})
RECURSIVE AggregatedFrom(_, _, _)
AggregatedFrom(words, i, pair) ==
  IF i > Len(words) THEN 0
  ELSE words[i].v * OccurrencesIn(words, i, pair) + AggregatedFrom(words, i + 1, pair)
Aggregated(words, pair) == AggregatedFrom(words, 1, pair)
ScannedBefore(p, q) == p[1] < q[1] \/ (p[1] = q[1] /\ p[2] < q[2])
HighestAndFirst(words, pair) ==
  /\ \E p \in PairPositions(words) : PairAt(words, p) = pair
  /\ \A q \in PairPositions(words) :
       /\ Aggregated(words, PairAt(words, q)) <= Aggregated(words, pair)
       /\ (Aggregated(words, PairAt(words, q)) = Aggregated(words, pair)
             /\ PairAt(words, q) # pair)
          => \E p \in PairPositions(words) :
               PairAt(words, p) = pair /\ ScannedBefore(p, q)
MergeRecorded == call.op = "training" /\ Len(merges') = Len(merges) + 1
Aaabdaaabac == <<"a","a","a","b","d","a","a","a","b","a","c">>

\* C13: in every iteration the pair recorded as the next merge has the highest
\* aggregated count of all adjacent pairs of the word frequency table and is,
\* among the pairs with that count, the first in scan order; the first merge
\* of train("aaabdaaabac") with minFreq = 2 is (a, a).
C13_HighestFirstPair ==
  /\ [][MergeRecorded => HighestAndFirst(loop.currentWords, merges'[Len(merges')])]_vars
  /\ []((call.op = "train" /\ call.text = Aaabdaaabac /\ config.minFreq = 2)
          => (/\ Len(merges) > 0 => merges[1] = <<<<"a">>, <<"a">>>>
              /\ config = DefaultConfig => Len(merges) > 0))

C13_Witness ==
  /\ call.op = "training"
  /\ call.text = <<"a","b"," ","a","b">>
  /\ config = DefaultConfig
  /\ Len(merges) = 1
  /\ merges[1] = <<<<"a">>, <<"b">>>>
  /\ Aggregated(loop.currentWords, <<<<"a","b">>, EOW>>) = 2

\* C14: for every merge train records, the count of that pair in the next
\* pair-count pass is not greater than its count in the pass that selected it.
PairCount(pairCounts, pair) == MapGetOr0(pairCounts, pair[1] \o <<" ">> \o pair[2])
NextPassRuns == loopContinues(config, vocabulary', loop'.mergeCount)
C14_PairCountNotGreater ==
  [][(MergeRecorded /\ NextPassRuns)
       => PairCount(countPairs(loop'.currentWords), merges'[Len(merges')])
            <= PairCount(countPairs(loop.currentWords), merges'[Len(merges')])]_vars

C14_Witness ==
  /\ call.op = "training"
  /\ Len(merges) = 2
  /\ merges[1] # merges[2]
  /\ ~loop.done
  /\ loopContinues(config, vocabulary, loop.mergeCount)
  /\ PairCount(countPairs(loop.currentWords), merges[1]) = 0
  /\ PairCount(countPairs(loop.currentWords), merges[2]) > 0

\* C15: train(T2) on a tokenizer trained before on another text leaves the
\* vocabulary, the inverse vocabulary and the merge list that train(T2) gives
\* on a fresh tokenizer with the same configuration.
C15_RetrainIsFresh ==
  (call.op = "train" /\ ~call.threw /\ call.again)
  => self = trained[config][call.text].state

C15_Witness ==
  /\ call.op = "train" /\ ~call.threw /\ call.again
  /\ Len(merges) > 0
  /\ self = trained[config][call.text].state

\* The tokens in the order they are first introduced: the special tokens in
\* configured order, the characters of the normalized text in sorted order,
\* the end-of-word marker, the merged symbols in merge order
FirstIndices(seq) == {i \in 1..Len(seq) : \A j \in 1..(i - 1) : seq[j] # seq[i]}
NthOf(indices, k) == CHOOSE i \in indices : Cardinality({j \in indices : j <= i}) = k
FirstOccurrencesAt(seq, indices) ==
  [k \in 1..Cardinality(indices) |-> seq[NthOf(indices, k)]]
FirstOccurrences(seq) == FirstOccurrencesAt(seq, FirstIndices(seq))
TextCharacters(text) ==
  {<<toLowerCase(text)[i]>> : i \in {j \in 1..Len(text) : ~IsSpace(text[j])}}
MergedSymbols(mergeList) == [k \in 1..Len(mergeList) |-> mergeList[k][1] \o mergeList[k][2]]
IntroducedOrder(cfg, text, mergeList) ==
  FirstOccurrences(cfg.specialTokens \o sortStrings(TextCharacters(text)) \o <<EOW>>
                     \o MergedSymbols(mergeList))
TokensById(reverse, n) == [i \in 1..n |-> reverse[i - 1]]

\* C16 (as claimed): after every train that returned, the token-to-id map and
\* the id-to-token map are inverses of each other, the ids are 0..n-1, and
\* they follow the order in which the tokens are first introduced.
C16_InverseMapsInOrder ==
  TrainReturned
  => /\ DOMAIN reverseVocabulary = 0..(Cardinality(DOMAIN vocabulary) - 1)
     /\ \A t \in DOMAIN vocabulary :
          vocabulary[t] \in DOMAIN reverseVocabulary /\ reverseVocabulary[vocabulary[t]] = t
     /\ \A i \in DOMAIN reverseVocabulary :
          reverseVocabulary[i] \in DOMAIN vocabulary /\ vocabulary[reverseVocabulary[i]] = i
     /\ TokensById(reverseVocabulary, Cardinality(DOMAIN vocabulary))
          = IntroducedOrder(config, call.text, merges)

\* C17: no merge rule learned by train has a merged symbol (left symbol
\* followed by right symbol) equal to a configured special token, whatever the
\* training text and the configured special tokens are.
MergedIsSpecial(cfg, mergeList) ==
  \E k \in 1..Len(mergeList) : \E i \in 1..Len(cfg.specialTokens) :
    mergeList[k][1] \o mergeList[k][2] = cfg.specialTokens[i]
C17_NoMergeMakesSpecial ==
  TrainReturned => ~MergedIsSpecial(config, merges)

\* C18: in tokenize every symbol that remains after all merges contributes
\* exactly one id, its vocabulary id or else the id of the unknown token, so
\* the output is as long as the remaining symbols of all words together.
RemainingSymbols(mergeList, text) ==
  Flatten([i \in 1..Len(tokenizeWords(text)) |->
             wordPartsOf(mergeList, tokenizeWords(text)[i])])
OneIdPerSymbol(vocab, cfg, symbols, ids) ==
  /\ Len(ids) = Len(symbols)
  /\ \A i \in 1..Len(symbols) :
       ids[i] = IF symbols[i] \in DOMAIN vocab THEN vocab[symbols[i]]
                ELSE vocab[cfg.unknownToken]
C18_OneIdPerSymbol ==
  (call.op = "tokenize" /\ ~call.threw)
    => OneIdPerSymbol(vocabulary, config, RemainingSymbols(merges, call.text), ret)

\* The reference rewrite of a symbol sequence: scanned from the left, every
\* symbol L followed at once by the symbol R becomes the one symbol LR, and
\* the scan goes on after it.
RECURSIVE ScanMergeFrom(_, _, _, _)
ScanMergeFrom(symbols, L, R, i) ==
  IF i > Len(symbols) THEN <<>>
  ELSE IF i < Len(symbols) /\ symbols[i] = L /\ symbols[i + 1] = R
       THEN <<L \o R>> \o ScanMergeFrom(symbols, L, R, i + 2)
       ELSE <<symbols[i]>> \o ScanMergeFrom(symbols, L, R, i + 1)
ScanMerge(symbols, pair) == ScanMergeFrom(symbols, pair[1], pair[2], 1)
RECURSIVE ScanMerges(_, _, _, _)
ScanMerges(symbols, mergeList, lo, hi) ==
  IF Len(symbols) < 0 \/ lo > hi THEN symbols
  ELSE IF lo = hi THEN ScanMerge(symbols, mergeList[lo])
  ELSE ScanMerges(ScanMerges(symbols, mergeList, lo, (lo + hi) \div 2),
                  mergeList, ((lo + hi) \div 2) + 1, hi)
WordSymbols(word) == splitChars(word) \o <<EOW>>
RewrittenAsScanned(before, after, pair) ==
  /\ Len(after) <= Len(before)
  /\ \A i \in 1..Len(before) :
       \E j \in 1..Len(after) :
         SymbolsOf(after, j) = ScanMerge(SymbolsOf(before, i), pair)

\* C19: applyMerge in train, and the rewrite of tokenize, give for every
\* symbol sequence and every pair (L, R) what the reference left-to-right
\* scan gives, for symbols of any characters and for R the end-of-word marker.
C19_RewriteIsReferenceScan ==
  /\ [][MergeRecorded
          => RewrittenAsScanned(loop.currentWords, loop'.currentWords,
                                merges'[Len(merges')])]_vars
  /\ [](TrainReturned
          => \A w \in Words :
               wordPartsOf(merges, w) = ScanMerges(WordSymbols(w), merges, 1, Len(merges)))

\* C20: every merge rule train records adds exactly one new entry to the
\* vocabulary, under the next unused id; after train with the default
\* configuration the vocabulary holds as many entries as there are special
\* tokens, distinct characters, the end-of-word marker and merge rules.
AddsOneEntry(vocab, vocabAfter, nextId, mergedToken) ==
  /\ mergedToken \notin DOMAIN vocab
  /\ vocabAfter = VocSet(vocab, mergedToken, nextId)
C20_OneEntryPerMerge ==
  /\ [][MergeRecorded
          => AddsOneEntry(vocabulary, vocabulary', loop.tokenId,
                          merges'[Len(merges')][1] \o merges'[Len(merges')][2])]_vars
  /\ []((TrainReturned /\ config = DefaultConfig)
          => Cardinality(DOMAIN vocabulary)
               = Len(config.specialTokens) + Cardinality(TextCharacters(call.text))
                 + 1 + Len(merges))

\* C21: when train raises InvalidInput on a tokenizer trained before, the
\* vocabulary, the inverse vocabulary and the merge list are cleared already:
\* until a later train succeeds tokenize raises NotTrained and detokenize of
\* any ids returns "".
Emptied(st, cfg) ==
  /\ st = EmptyState
  /\ \A text \in Texts : tokenize(st, cfg, text).threw
  /\ \A ids \in IdSeqs : detokenize(st, cfg, ids) = <<>>
C21_FailedTrainClears ==
  (trainedOn = NoText /\ call.op # "training") => Emptied(self, config)

C21_Witness ==
  /\ call.op = "train" /\ call.threw /\ call.again
  /\ isInvalidInput(call.text)
  /\ Emptied(self, config)

\* C22: every call of train terminates, and its merge loop performs at most
\* maxMerges iterations for every text and every configuration, also when the
\* selected pair is not rewritten and the vocabulary stops growing.
IterationBegins ==
  call.op = "training" /\ ~loop.done /\ loopContinues(config, vocabulary, loop.mergeCount)
LoopAdvances ==
  (call.op = "training" /\ ~loop.done)
    => (loop'.done \/ loop'.mergeCount = loop.mergeCount + 1)
C22_TrainTerminates ==
  /\ [](IterationBegins => loop.mergeCount + 1 <= config.maxMerges)
  /\ [][LoopAdvances]_vars

\* C23: in each iteration of the training loop the best pair is accepted as
\* a merge rule if and only if its aggregated count is at least the configured
\* minFreq, and otherwise the loop stops; for every minFreq, 0 and 1 included.
HighestAggregated(words) ==
  CHOOSE n \in {Aggregated(words, PairAt(words, p)) : p \in PairPositions(words)} :
    \A q \in PairPositions(words) : Aggregated(words, PairAt(words, q)) <= n
AcceptedIffFrequent(words, minFreq) ==
  IF HighestAggregated(words) >= minFreq
  THEN MergeRecorded /\ Aggregated(words, merges'[Len(merges')]) = HighestAggregated(words)
  ELSE loop'.done /\ merges' = merges
C23_AcceptedIffMinFreq ==
  [][(IterationBegins /\ PairPositions(loop.currentWords) # {})
       => AcceptedIffFrequent(loop.currentWords, config.minFreq)]_vars

\* C24: on a tokenizer trained by train, validateRoundTrip(text) has isValid
\* false for every text with an uppercase letter, leading or trailing
\* whitespace, two or more whitespace characters in a row, or a whitespace
\* character other than a single space.
HasUppercase(text) == \E i \in 1..Len(text) : text[i] \in Upper
IrregularWhitespace(text) ==
  \/ Len(text) > 0 /\ (IsSpace(text[1]) \/ IsSpace(text[Len(text)]))
  \/ \E i \in 1..(Len(text) - 1) : IsSpace(text[i]) /\ IsSpace(text[i + 1])
  \/ \E i \in 1..Len(text) : IsSpace(text[i]) /\ text[i] # " "
C24_IrregularTextInvalid ==
  (/\ call.op = "validateRoundTrip"
   /\ trainedOn # NoText
   /\ (HasUppercase(call.text) \/ IrregularWhitespace(call.text)))
  => ~ret.isValid

C24_Witness ==
  /\ call.op = "validateRoundTrip"
  /\ trainedOn = <<"a", "b", " ", "a", "b">>
  /\ call.text = <<"a", "\t", "b">>
  /\ ~HasUppercase(call.text) /\ IrregularWhitespace(call.text)
  /\ ~ret.isValid
  /\ ret.reconstructedText = <<"a", " ", "b">>

\* C25: for every word w of the training text T, tokenize(w) after train(T)
\* returns the ids of the symbols the training loop holds for w in its word
\* frequency table when it ends: replaying the merge list on the word reaches
\* the segmentation training reached, and no symbol falls to the unknown token.
\* The table is a local of train, so the comparison is made where the loop has
\* been left, with the vocabulary and the merge list train returns.
LoopLeft == call.op = "training" /\ loop.done
TrainedSymbols(words, word) ==
  SymbolsOf(words, CHOOSE i \in 1..Len(words) : Flatten(SymbolsOf(words, i)) = word \o EOW)
IdsOfSymbols(vocab, symbols, ids) ==
  /\ \A j \in 1..Len(symbols) : symbols[j] \in DOMAIN vocab
  /\ ids = [j \in 1..Len(symbols) |-> vocab[symbols[j]]]
TokenizedAsTrained(st, cfg, words, word) ==
  /\ \E i \in 1..Len(words) : Flatten(SymbolsOf(words, i)) = word \o EOW
  /\ ~tokenize(st, cfg, word).threw
  /\ IdsOfSymbols(st.vocabulary, TrainedSymbols(words, word), tokenize(st, cfg, word).tokens)
C25_TokenizeAsTrained ==
  LoopLeft
    => \A k \in 1..Len(tokenizeWords(call.text)) :
         TokenizedAsTrained(self, config, loop.currentWords, tokenizeWords(call.text)[k])

C25_Witness ==
  /\ LoopLeft
  /\ call.text = <<"a","a","a","b","d","a","a","a","b","a","c">>
  /\ Len(merges) >= 2 /\ merges[1] # merges[2]
  /\ Len(TrainedSymbols(loop.currentWords, call.text)) < Len(call.text)
  /\ TokenizedAsTrained(self, config, loop.currentWords, call.text)

\* C26: after a successful train, for every text, the ids tokenize returns
\* hold the id of the end-of-word marker exactly once per whitespace-separated
\* word, as the last id of that word's ids, and no id denotes a merged symbol
\* that contains the marker; so detokenize splits the ids into as many words.
ContainsEOW(sym) ==
  \E i \in 1..Len(sym) : i + 3 <= Len(sym) /\ SubSeq(sym, i, i + 3) = EOW
MarkerEndsWord(vocab, ids) ==
  /\ Len(ids) > 0
  /\ ids[Len(ids)] = vocab[EOW]
  /\ \A j \in 1..(Len(ids) - 1) : ids[j] # vocab[EOW]
NoMergedMarker(reverse, ids) ==
  \A j \in 1..Len(ids) :
    ids[j] \in DOMAIN reverse => (ContainsEOW(reverse[ids[j]]) => reverse[ids[j]] = EOW)
TokenizedTrained == call.op = "tokenize" /\ ~call.threw /\ trainedOn # NoText
MarkersInPlace ==
  /\ ret = Flatten([k \in 1..Len(tokenizeWords(call.text)) |->
               wordIds(vocabulary, merges, config, tokenizeWords(call.text)[k])])
  /\ \A k \in 1..Len(tokenizeWords(call.text)) :
       MarkerEndsWord(vocabulary,
                      wordIds(vocabulary, merges, config, tokenizeWords(call.text)[k]))
  /\ NoMergedMarker(reverseVocabulary, ret)
SameWordCount ==
  Len(tokenizeWords(detokenize(self, config, ret))) = Len(tokenizeWords(call.text))
C26_WordsDecodedForEveryText ==
  TokenizedTrained => (MarkersInPlace /\ SameWordCount)

\* C26, amended: the marker part as stated; detokenize splits the ids into as
\* many words when every word keeps a symbol of the vocabulary that is neither
\* the marker nor a special token.
Decodable(vocab, cfg, sym) ==
  sym \in DOMAIN vocab /\ sym # EOW /\ ~includes(cfg.specialTokens, sym)
EveryWordDecodes ==
  \A k \in 1..Len(tokenizeWords(call.text)) :
    \E j \in 1..Len(wordPartsOf(merges, tokenizeWords(call.text)[k])) :
      Decodable(vocabulary, config, wordPartsOf(merges, tokenizeWords(call.text)[k])[j])
C26_MarkerOncePerWord ==
  TokenizedTrained => (MarkersInPlace /\ (EveryWordDecodes => SameWordCount))

C26_Witness ==
  /\ TokenizedTrained
  /\ trainedOn = <<"w", " ", "w">> /\ call.text = <<"w", " ", "w">>
  /\ <<"w">> \o EOW \in DOMAIN vocabulary
  /\ ret = <<vocabulary[<<"w">>], vocabulary[EOW], vocabulary[<<"w">>], vocabulary[EOW]>>
  /\ EveryWordDecodes /\ SameWordCount

\* C27: benchmark retrains the tokenizer it is called on: after benchmark(texts)
\* on a non-empty batch the vocabulary and the merge list are those of train on
\* the last text of the batch (empty if that text is empty or whitespace
\* only), whatever they were before; ids tokenize returned before benchmark
\* need not detokenize to the same text afterwards.
LastOf(texts) == texts[Len(texts)]
LeftByTrain(st, cfg, text) ==
  IF isInvalidInput(text) THEN st = EmptyState
  ELSE st = train(cfg, text).state
C27_BenchmarkRetrains ==
  (call.op = "benchmark" /\ Len(call.texts) > 0)
    => LeftByTrain(self, config, LastOf(call.texts))

StaleIds(st, cfg, before, text) ==
  /\ detokenize(before, cfg, tokenize(before, cfg, text).tokens) = text
  /\ detokenize(st, cfg, tokenize(before, cfg, text).tokens) # text
C27_Witness ==
  /\ call.op = "benchmark"
  /\ call.texts = << <<"a","b"," ","a","b">>, <<"a">> >>
  /\ config = DefaultConfig
  /\ self = train(config, <<"a">>).state
  /\ StaleIds(self, config, train(config, <<"a","b"," ","a","b">>).state,
              <<"a","b"," ","a","b">>)

====
